---- MODULE Spec2Model ----
(***************************************************************************)
(* Layout and composition protocol of the goo widget toolkit:              *)
(* Container (flex row/column), RootWidget, OverlayWidget, DirectionWidget *)
(* and the Filler leaf.  A render pass is a pure, synchronous, depth-first *)
(* recursion; it is modelled as recursive operators that return the used   *)
(* size, the error and the ordered log of every Render call of the pass.   *)
(*                                                                         *)
(* float32 values are modelled bit-exactly as sign, mantissa and exponent, *)
(* with subnormals, signed zeros, infinities and NaN; every arithmetic     *)
(* operation rounds to nearest, ties to even.                              *)
(***************************************************************************)
EXTENDS Integers, Sequences, FiniteSets

VARIABLES widget, ctx, box, result, pc

vars == <<widget, ctx, box, result, pc>>

----------------------------------------------------------------------------
(* Bounds of the model *)

MaxChildren == 3

MaxWeight == 2

----------------------------------------------------------------------------
(* float32 arithmetic *)

\* A float32 is a record [kind, neg, m, e].  A finite value has kind
\* "finite" and is (-1)^neg * m * 2^e with m odd and m < 2^24, its lowest
\* bit at 2^MinExp or above (subnormals have fewer mantissa bits) and its
\* magnitude below 2^MaxTop; the two zeros are m = 0, e = 0 with either
\* sign.  The infinities have kind "inf" and a sign.  NaN has kind "nan":
\* its sign and payload, which no operation of the toolkit reads, are not
\* told apart.  Every operation computes the exact result and rounds it to
\* nearest, ties to even, as the hardware does; a magnitude of 2^MaxTop or
\* more becomes an infinity.  Intermediate values are passed as
\* parameters, so that no integer beyond 31 bits is ever formed.
MantissaBits == 24

MinExp == -149

MaxTop == 128

Abs(n) == IF n < 0 THEN -n ELSE n

MinInt(i, j) == IF i < j THEN i ELSE j

MaxInt(i, j) == IF i < j THEN j ELSE i

\* The number of binary digits of n, 0 <= n < 2^31.
BitLen(n) == Cardinality({k \in 0..30 : 2^k <= n})

\* The number of trailing zero bits of n, 0 < n < 2^31.
TrailingZeros(n) == Cardinality({k \in 1..30 : n % 2^k = 0})

\* n \div 2^s for n >= 0 and any s >= 0.
ShiftRight(n, s) == IF s > 30 THEN 0 ELSE n \div 2^s

Finite(neg, m, e) == [kind |-> "finite", neg |-> neg, m |-> m, e |-> e]

SignedZero(neg) == Finite(neg, 0, 0)

Inf(neg) == [kind |-> "inf", neg |-> neg, m |-> 0, e |-> 0]

NaN == [kind |-> "nan", neg |-> FALSE, m |-> 0, e |-> 0]

IsNaN(a) == a.kind = "nan"

IsInf(a) == a.kind = "inf"

IsZero(a) == a.kind = "finite" /\ a.m = 0

CanonBy(neg, mag, e, z) == Finite(neg, mag \div 2^z, e + z)

\* The record of mag * 2^e with the trailing zero bits of mag moved into e.
Canon(neg, mag, e) ==
    IF mag = 0 THEN SignedZero(neg)
    ELSE CanonBy(neg, mag, e, TrailingZeros(mag))

\* mag * 2^e, or the infinity when it is out of range.
Ranged(neg, mag, e) ==
    IF mag # 0 /\ BitLen(mag) + e > MaxTop THEN Inf(neg)
    ELSE Canon(neg, mag, e)

\* q with remainder r out of 2 * half, rounded to nearest, ties to even.
RoundUp(neg, q, r, half, e, sticky) ==
    Ranged(neg,
           IF r > half \/ (r = half /\ (sticky \/ q % 2 = 1))
           THEN q + 1 ELSE q,
           e)

\* mag cut by its k lowest bits; cut by more bits than it has, it is less
\* than half of the lowest bit kept.
RoundTo(neg, mag, e, sticky, k) ==
    IF k <= 0 THEN Ranged(neg, mag, e)
    ELSE IF k > BitLen(mag) THEN SignedZero(neg)
    ELSE RoundUp(neg, mag \div 2^k, mag % 2^k, 2^(k - 1), e + k, sticky)

\* Round to nearest, ties to even: the float32 nearest to
\* (-1)^neg * (mag + f) * 2^e, where f = 0 when sticky is FALSE and
\* 0 < f < 1 when it is TRUE (then mag has more than MantissaBits + 1
\* bits).  The bits kept are the MantissaBits highest, or fewer where the
\* lowest would lie below 2^MinExp (gradual underflow).
Round(neg, mag, e, sticky) ==
    RoundTo(neg, mag, e, sticky,
            MaxInt(BitLen(mag) - MantissaBits, MinExp - e))

\* float32(n) of an integer n.
F(n) == Round(n < 0, Abs(n), 0, FALSE)

Zero == F(0)

\* The signed mantissa of a finite value.
Sig(a) == IF a.neg THEN -a.m ELSE a.m

\* The position above the leading bit of a finite non-zero value.
Top(a) == BitLen(a.m) + a.e

\* The sum S * 2^u formed exactly; an exact zero sum is +0.
AddExact(S, u) == Round(S < 0, Abs(S), u, FALSE)

\* big + small in units of 2^u: exactly when small has no bit below 2^u,
\* else with the bits of small below 2^u kept as the sticky bit.
AddIn(big, small, u) ==
    IF small.e >= u
    THEN AddExact(Sig(big) * 2^(big.e - u) + Sig(small) * 2^(small.e - u), u)
    ELSE Round(big.neg,
               big.m * 2^(big.e - u)
                  + (IF big.neg = small.neg
                     THEN ShiftRight(small.m, u - small.e)
                     ELSE -ShiftRight(small.m, u - small.e) - 1),
               u, TRUE)

\* big + small for non-zero values with Top(big) = top >= Top(small): the
\* unit 2^u is the lowest bit of either, or higher if big would then take
\* more than 29 bits.
AddOrdered(big, small, top) ==
    AddIn(big, small, MaxInt(MinInt(big.e, small.e), top - 29))

AddTops(a, b, ta, tb) ==
    AddOrdered(IF ta >= tb THEN a ELSE b, IF ta >= tb THEN b ELSE a,
               MaxInt(ta, tb))

Add(a, b) ==
    IF IsNaN(a) \/ IsNaN(b) THEN NaN
    ELSE IF IsInf(a) THEN (IF IsInf(b) /\ a.neg # b.neg THEN NaN ELSE a)
    ELSE IF IsInf(b) THEN b
    ELSE IF a.m = 0 /\ b.m = 0 THEN SignedZero(a.neg /\ b.neg)
    ELSE IF a.m = 0 THEN b
    ELSE IF b.m = 0 THEN a
    ELSE AddTops(a, b, Top(a), Top(b))

Neg(a) == IF IsNaN(a) THEN a ELSE [a EXCEPT !.neg = ~a.neg]

Sub(a, b) == Add(a, Neg(b))

\* H * 2^24 + L cut to 30 bits and a sticky bit; s is the number of bits cut.
MulCut(neg, e, H, L, s) ==
    IF s <= 0 THEN Round(neg, H * 16777216 + L, e, FALSE)
    ELSE Round(neg, H * 2^(24 - s) + L \div 2^s, e + s, L % 2^s # 0)

\* high * 2^24 + mid * 2^12 + low as H * 2^24 + L with L < 2^24.
MulSum(neg, e, high, mid, low) ==
    MulCut(neg, e,
           high + mid \div 4096 + ((mid % 4096) * 4096 + low) \div 16777216,
           ((mid % 4096) * 4096 + low) % 16777216,
           BitLen(high + mid \div 4096
                    + ((mid % 4096) * 4096 + low) \div 16777216) - 6)

\* The product of two mantissas given as 12-bit halves.
MulParts(neg, e, x1, x0, y1, y0) ==
    MulSum(neg, e, x1 * y1, x1 * y0 + x0 * y1, x0 * y0)

Mul(a, b) ==
    IF IsNaN(a) \/ IsNaN(b) THEN NaN
    ELSE IF IsInf(a) \/ IsInf(b)
    THEN (IF IsZero(a) \/ IsZero(b) THEN NaN ELSE Inf(a.neg # b.neg))
    ELSE IF a.m = 0 \/ b.m = 0 THEN SignedZero(a.neg # b.neg)
    ELSE MulParts(a.neg # b.neg, a.e + b.e,
                  a.m \div 4096, a.m % 4096, b.m \div 4096, b.m % 4096)

RECURSIVE DivLoop(_, _, _, _)
\* One step of the long division: s more quotient bits.
DivStep(q, r, y, t, s) ==
    DivLoop(q * 2^s + (r * 2^s) \div y, (r * 2^s) % y, y, t + s)

\* Long division, up to 7 quotient bits at a step, until the division is
\* exact or the quotient has MantissaBits + 2 bits; returns the quotient q,
\* the remainder r and the number t of fraction bits produced.
DivLoop(q, r, y, t) ==
    IF r = 0 \/ BitLen(q) >= MantissaBits + 2
    THEN [q |-> q, r |-> r, t |-> t]
    ELSE DivStep(q, r, y, t, MinInt(7, MantissaBits + 2 - BitLen(q)))

DivRound(neg, e, d) == Round(neg, d.q, e - d.t, d.r # 0)

Div(a, b) ==
    IF IsNaN(a) \/ IsNaN(b) THEN NaN
    ELSE IF IsInf(a) THEN (IF IsInf(b) THEN NaN ELSE Inf(a.neg # b.neg))
    ELSE IF IsInf(b) THEN SignedZero(a.neg # b.neg)
    ELSE IF b.m = 0 THEN (IF a.m = 0 THEN NaN ELSE Inf(a.neg # b.neg))
    ELSE IF a.m = 0 THEN SignedZero(a.neg # b.neg)
    ELSE DivRound(a.neg # b.neg, a.e - b.e,
                  DivLoop(a.m \div b.m, a.m % b.m, b.m, 0))

MagLtTops(x, y, tx, ty) ==
    \/ tx < ty
    \/ /\ tx = ty
       /\ x.m * 2^(x.e - MinInt(x.e, y.e)) < y.m * 2^(y.e - MinInt(x.e, y.e))

\* |x| < |y| for non-zero x and y, neither a NaN.
MagLt(x, y) ==
    IF IsInf(x) THEN FALSE
    ELSE IF IsInf(y) THEN TRUE
    ELSE MagLtTops(x, y, Top(x), Top(y))

\* -1, 0 or 1 as a is negative, a zero of either sign, or positive.
Sign(a) == IF IsZero(a) THEN 0 ELSE IF a.neg THEN -1 ELSE 1

\* a < b; FALSE when either is a NaN.
Lt(a, b) ==
    IF IsNaN(a) \/ IsNaN(b) THEN FALSE
    ELSE IF Sign(a) # Sign(b) THEN Sign(a) < Sign(b)
    ELSE IF Sign(a) = 0 THEN FALSE
    ELSE MagLt(IF a.neg THEN b ELSE a, IF a.neg THEN a ELSE b)

Gt(a, b) == Lt(b, a)

\* a == b: the two zeros are equal, a NaN equals nothing.
Eq(a, b) ==
    /\ ~IsNaN(a) /\ ~IsNaN(b)
    /\ a = b \/ (IsZero(a) /\ IsZero(b))

Le(a, b) == Lt(a, b) \/ Eq(a, b)

----------------------------------------------------------------------------
(* Geometry primitives and constructors *)

Unbounded == 1000000000

Point(x, y) == [X |-> x, Y |-> y]

Size(w, h) == [Width |-> w, Height |-> h]

ZeroSize == Size(Zero, Zero)

NewConstraints(minWidth, minHeight, maxWidth, maxHeight, top, left) ==
    [MinWidth |-> F(minWidth), MinHeight |-> F(minHeight),
     MaxWidth |-> F(maxWidth), MaxHeight |-> F(maxHeight),
     Top |-> F(top), Left |-> F(left)]

NewFlexConstraints(minWidth, minHeight, maxWidth, maxHeight) ==
    NewConstraints(minWidth, minHeight, maxWidth, maxHeight, 0, 0)

NewRigidConstraints(width, height) ==
    NewConstraints(width, height, width, height, 0, 0)

NewRigidConstraintsAt(width, height, top, left) ==
    NewConstraints(width, height, width, height, top, left)

ZeroConstraints == NewConstraints(0, 0, 0, 0, 0, 0)

DefaultConstraints == NewFlexConstraints(0, 0, Unbounded, Unbounded)

Box(position, size, constraints) ==
    [Position |-> position, Size |-> size, Constraints |-> constraints]

ZeroBox == Box(Point(Zero, Zero), ZeroSize, ZeroConstraints)

\* A *Box pointer: <<>> is nil, <<b>> points to b.
NilBox == <<>>

Context(windowWidth, windowHeight, parentBox, availableSize) ==
    [WindowWidth |-> windowWidth, WindowHeight |-> windowHeight,
     ParentBox |-> parentBox, AvailableSize |-> availableSize]

\* The context a structural widget derives for a child.
ChildContext(c, childBox) ==
    Context(c.WindowWidth, c.WindowHeight, <<childBox>>, childBox.Size)

----------------------------------------------------------------------------
(* Errors *)

nil == "nil"

errInvalidDirection == "invalid direction"

\* Mutant: the error check never fires.
chkE_never(err) == FALSE

chkE(err) == err # nil

----------------------------------------------------------------------------
(* Enumerations *)

DirectionRow == 0

DirectionColumn == 1

FlexTypeRigid == 0

FlexTypeFlex == 1

GravityCenter == 0

GravityNorth == 1

GravitySouth == 2

GravityEast == 3

GravityWest == 4

GravityNorthEast == 5

GravityNorthWest == 6

GravitySouthEast == 7

GravitySouthWest == 8

----------------------------------------------------------------------------
(* Widgets.  A Widget pointer is <<>> (nil) or <<w>>. *)

Fill(constraints) == [kind |-> "Filler", constraints |-> constraints]

\* A leaf implemented outside the toolkit: it reports a fixed used size and
\* a fixed error, whatever box it is given.
Leaf(constraints, usedSize, err) ==
    [kind |-> "Leaf", constraints |-> constraints, usedSize |-> usedSize,
     err |-> err]

NewRigidChild(w) == [Widget |-> w, Type |-> FlexTypeRigid, Weight |-> Zero]

NewFlexChild(w, weight) ==
    [Widget |-> w, Type |-> FlexTypeFlex, Weight |-> weight]

NewContainer(direction, children, constraints) ==
    [kind |-> "Container", Direction |-> direction, Children |-> children,
     constraints |-> constraints]

Root(child) == [kind |-> "RootWidget", child |-> child]

Overlay(children, constraints) ==
    [kind |-> "OverlayWidget", children |-> children,
     constraints |-> constraints]

NewDirectionWidget(child, gravity, constraints) ==
    [kind |-> "DirectionWidget", child |-> child, gravity |-> gravity,
     constraints |-> constraints]

GetConstraints(w) ==
    IF w.kind = "RootWidget" THEN DefaultConstraints ELSE w.constraints

----------------------------------------------------------------------------
(* Render.  Every operator returns [usedSize, err, calls]; calls is the    *)
(* log of the Render calls made, in call order, each with the path of the  *)
(* widget from the widget the pass started at (child positions from 1),    *)
(* the context and box it was given and what it returned.                  *)

RECURSIVE Render(_, _, _, _)
RECURSIVE renderRow(_, _, _, _)
RECURSIVE renderColumn(_, _, _, _)
RECURSIVE rowLoop(_, _, _, _, _, _, _, _)
RECURSIVE columnLoop(_, _, _, _, _, _, _, _)
RECURSIVE overlayLoop(_, _, _, _, _, _)

Return(usedSize, err, calls) ==
    [usedSize |-> usedSize, err |-> err, calls |-> calls]

Call(path, w, c, b, r) ==
    [path |-> path, kind |-> w.kind, ctx |-> c, box |-> b,
     usedSize |-> r.usedSize, err |-> r.err]

\* Filler.Render: draws the quad and reports the whole box as used.
FillerRender(f, c, b) == Return(b.Size, nil, <<>>)

LeafRender(l, c, b) ==
    Return(IF l.err = nil THEN l.usedSize ELSE ZeroSize, l.err, <<>>)

(* Container, first pass *)

RECURSIVE rowRigidWidth(_, _)
rowRigidWidth(children, n) ==
    IF n = 0 THEN Zero
    ELSE LET child == children[n]
             prev == rowRigidWidth(children, n - 1)
         IN  IF child.Type = FlexTypeRigid
             THEN Add(prev, GetConstraints(child.Widget).MinWidth)
             ELSE prev

RECURSIVE columnRigidHeight(_, _)
columnRigidHeight(children, n) ==
    IF n = 0 THEN Zero
    ELSE LET child == children[n]
             prev == columnRigidHeight(children, n - 1)
         IN  IF child.Type = FlexTypeRigid
             THEN Add(prev, GetConstraints(child.Widget).MinHeight)
             ELSE prev

RECURSIVE totalFlexWeight(_, _)
totalFlexWeight(children, n) ==
    IF n = 0 THEN Zero
    ELSE LET child == children[n]
             prev == totalFlexWeight(children, n - 1)
         IN  IF child.Type = FlexTypeRigid THEN prev
             ELSE Add(prev, child.Weight)

rowFlexWidth(children, availableWidth) ==
    LET flexWidth == Sub(availableWidth, rowRigidWidth(children, Len(children)))
    IN  IF Lt(flexWidth, Zero) THEN Zero ELSE flexWidth

columnFlexHeight(children, availableHeight) ==
    LET flexHeight ==
            Sub(availableHeight, columnRigidHeight(children, Len(children)))
    IN  IF Lt(flexHeight, Zero) THEN Zero ELSE flexHeight

(* Container, second pass: the main-axis size assigned to a child *)

\* Mutant: the share ignores the child's weight.
rowChildWidth_unweighted(child, childConstraints, flexWidth, total) ==
    IF child.Type = FlexTypeRigid THEN childConstraints.MinWidth
    ELSE IF Gt(total, Zero)
         THEN LET share == Div(flexWidth, total)
                  raised == IF Lt(share, childConstraints.MinWidth)
                            THEN childConstraints.MinWidth ELSE share
              IN  IF Gt(raised, childConstraints.MaxWidth)
                  THEN childConstraints.MaxWidth ELSE raised
         ELSE childConstraints.MinWidth

rowChildWidth(child, childConstraints, flexWidth, total) ==
    IF child.Type = FlexTypeRigid THEN childConstraints.MinWidth
    ELSE IF Gt(total, Zero)
         THEN LET share == Div(Mul(flexWidth, child.Weight), total)
                  raised == IF Lt(share, childConstraints.MinWidth)
                            THEN childConstraints.MinWidth ELSE share
              IN  IF Gt(raised, childConstraints.MaxWidth)
                  THEN childConstraints.MaxWidth ELSE raised
         ELSE childConstraints.MinWidth

\* Mutant: with zero total weight a flex child takes the whole flex space.
columnChildHeight_zeroTakesAll(child, childConstraints, flexHeight, total) ==
    IF child.Type = FlexTypeRigid THEN childConstraints.MinHeight
    ELSE IF Gt(total, Zero)
         THEN LET share == Div(Mul(flexHeight, child.Weight), total)
                  raised == IF Lt(share, childConstraints.MinHeight)
                            THEN childConstraints.MinHeight ELSE share
              IN  IF Gt(raised, childConstraints.MaxHeight)
                  THEN childConstraints.MaxHeight ELSE raised
         ELSE flexHeight

\* Mutant: the share is lowered to max first and then raised to min.
columnChildHeight_maxFirst(child, childConstraints, flexHeight, total) ==
    IF child.Type = FlexTypeRigid THEN childConstraints.MinHeight
    ELSE IF Gt(total, Zero)
         THEN LET share == Div(Mul(flexHeight, child.Weight), total)
                  lowered == IF Gt(share, childConstraints.MaxHeight)
                             THEN childConstraints.MaxHeight ELSE share
              IN  IF Lt(lowered, childConstraints.MinHeight)
                  THEN childConstraints.MinHeight ELSE lowered
         ELSE childConstraints.MinHeight

columnChildHeight(child, childConstraints, flexHeight, total) ==
    IF child.Type = FlexTypeRigid THEN childConstraints.MinHeight
    ELSE IF Gt(total, Zero)
         THEN LET share == Div(Mul(flexHeight, child.Weight), total)
                  raised == IF Lt(share, childConstraints.MinHeight)
                            THEN childConstraints.MinHeight ELSE share
              IN  IF Gt(raised, childConstraints.MaxHeight)
                  THEN childConstraints.MaxHeight ELSE raised
         ELSE childConstraints.MinHeight

\* Mutant: the child is placed at the cursor, not relative to the row's x.
rowChildBox_absolute(b, currentX, childWidth, childConstraints) ==
    Box(Point(currentX, b.Position.Y),
        Size(childWidth, b.Size.Height), childConstraints)

rowChildBox(b, currentX, childWidth, childConstraints) ==
    Box(Point(Add(b.Position.X, currentX), b.Position.Y),
        Size(childWidth, b.Size.Height), childConstraints)

\* Mutant: the cross-axis size is lowered to the child's max width.
columnChildBox_clampCross(b, currentY, childHeight, childConstraints) ==
    Box(Point(b.Position.X, Add(b.Position.Y, currentY)),
        Size(IF Gt(b.Size.Width, childConstraints.MaxWidth)
             THEN childConstraints.MaxWidth ELSE b.Size.Width,
             childHeight),
        childConstraints)

columnChildBox(b, currentY, childHeight, childConstraints) ==
    Box(Point(b.Position.X, Add(b.Position.Y, currentY)),
        Size(b.Size.Width, childHeight), childConstraints)

\* The loop variables after a child returned childUsedSize.
\* Mutant: the cursor advances by the child's used height.
rowAdvance_cursorByHeight(st, childUsedSize) ==
    [currentX |-> Add(st.currentX, childUsedSize.Height),
     actualUsedWidth |-> Add(st.actualUsedWidth, childUsedSize.Width),
     actualMaxHeight |-> IF Gt(childUsedSize.Height, st.actualMaxHeight)
                         THEN childUsedSize.Height ELSE st.actualMaxHeight]

rowAdvance(st, childUsedSize) ==
    [currentX |-> Add(st.currentX, childUsedSize.Width),
     actualUsedWidth |-> Add(st.actualUsedWidth, childUsedSize.Width),
     actualMaxHeight |-> IF Gt(childUsedSize.Height, st.actualMaxHeight)
                         THEN childUsedSize.Height ELSE st.actualMaxHeight]

\* Mutant: the cross-axis extent is that of the last child, not the maximum.
columnAdvance_lastWidth(st, childUsedSize) ==
    [currentY |-> Add(st.currentY, childUsedSize.Height),
     actualUsedHeight |-> Add(st.actualUsedHeight, childUsedSize.Height),
     actualMaxWidth |-> childUsedSize.Width]

\* Mutant: the cursor advances by at least one unit per child.
columnAdvance_atLeastOne(st, childUsedSize) ==
    [currentY |-> Add(st.currentY,
                      IF Lt(childUsedSize.Height, F(1))
                      THEN F(1) ELSE childUsedSize.Height),
     actualUsedHeight |-> Add(st.actualUsedHeight, childUsedSize.Height),
     actualMaxWidth |-> IF Gt(childUsedSize.Width, st.actualMaxWidth)
                        THEN childUsedSize.Width ELSE st.actualMaxWidth]

columnAdvance(st, childUsedSize) ==
    [currentY |-> Add(st.currentY, childUsedSize.Height),
     actualUsedHeight |-> Add(st.actualUsedHeight, childUsedSize.Height),
     actualMaxWidth |-> IF Gt(childUsedSize.Width, st.actualMaxWidth)
                        THEN childUsedSize.Width ELSE st.actualMaxWidth]

rowLoop(c, cx, b, path, flexWidth, total, i, acc) ==
    IF i > Len(c.Children)
    THEN Return(Size(acc.st.actualUsedWidth, acc.st.actualMaxHeight), nil,
                acc.calls)
    ELSE LET child == c.Children[i]
             childConstraints == GetConstraints(child.Widget)
             childWidth ==
                 rowChildWidth(child, childConstraints, flexWidth, total)
             childBox ==
                 rowChildBox(b, acc.st.currentX, childWidth, childConstraints)
             childCtx == ChildContext(cx, childBox)
             r == Render(child.Widget, childCtx, childBox, Append(path, i))
         IN  IF chkE(r.err)
             THEN Return(ZeroSize, r.err, acc.calls \o r.calls)
             ELSE rowLoop(c, cx, b, path, flexWidth, total, i + 1,
                          [st |-> rowAdvance(acc.st, r.usedSize),
                           calls |-> acc.calls \o r.calls])

renderRow(c, cx, b, path) ==
    rowLoop(c, cx, b, path,
            rowFlexWidth(c.Children, b.Size.Width),
            totalFlexWeight(c.Children, Len(c.Children)), 1,
            [st |-> [currentX |-> Zero, actualUsedWidth |-> Zero,
                     actualMaxHeight |-> Zero],
             calls |-> <<>>])

columnLoop(c, cx, b, path, flexHeight, total, i, acc) ==
    IF i > Len(c.Children)
    THEN Return(Size(acc.st.actualMaxWidth, acc.st.actualUsedHeight), nil,
                acc.calls)
    ELSE LET child == c.Children[i]
             childConstraints == GetConstraints(child.Widget)
             childHeight ==
                 columnChildHeight(child, childConstraints, flexHeight, total)
             childBox ==
                 columnChildBox(b, acc.st.currentY, childHeight,
                                childConstraints)
             childCtx == ChildContext(cx, childBox)
             r == Render(child.Widget, childCtx, childBox, Append(path, i))
         IN  IF chkE(r.err)
             THEN Return(ZeroSize, r.err, acc.calls \o r.calls)
             ELSE columnLoop(c, cx, b, path, flexHeight, total, i + 1,
                             [st |-> columnAdvance(acc.st, r.usedSize),
                              calls |-> acc.calls \o r.calls])

renderColumn(c, cx, b, path) ==
    columnLoop(c, cx, b, path,
               columnFlexHeight(c.Children, b.Size.Height),
               totalFlexWeight(c.Children, Len(c.Children)), 1,
               [st |-> [currentY |-> Zero, actualUsedHeight |-> Zero,
                        actualMaxWidth |-> Zero],
                calls |-> <<>>])

\* Mutant: an unrecognized direction is laid out as a column.
ContainerRender_defaultColumn(c, cx, b, path) ==
    IF Len(c.Children) = 0 THEN Return(ZeroSize, nil, <<>>)
    ELSE IF c.Direction = DirectionRow THEN renderRow(c, cx, b, path)
         ELSE renderColumn(c, cx, b, path)

ContainerRender(c, cx, b, path) ==
    IF Len(c.Children) = 0 THEN Return(ZeroSize, nil, <<>>)
    ELSE CASE c.Direction = DirectionRow -> renderRow(c, cx, b, path)
           [] c.Direction = DirectionColumn -> renderColumn(c, cx, b, path)
           [] OTHER -> Return(ZeroSize, errInvalidDirection, <<>>)

(* RootWidget *)

\* Mutant: raise to min first, then lower to max.
clampMinThenMax(size, min, max) ==
    LET raised == IF Gt(min, size) THEN min ELSE size
    IN  IF Lt(max, raised) THEN max ELSE raised

\* Lower to max, then raise to min.
clampMaxThenMin(size, min, max) ==
    LET lowered == IF Lt(max, size) THEN max ELSE size
    IN  IF Gt(min, lowered) THEN min ELSE lowered

RootChildBox(cx, childConstraints) ==
    LET canvasWidth == F(cx.WindowWidth)
        canvasHeight == F(cx.WindowHeight)
    IN  Box(Point(childConstraints.Left, childConstraints.Top),
            Size(clampMaxThenMin(Sub(canvasWidth, childConstraints.Left),
                                 childConstraints.MinWidth,
                                 childConstraints.MaxWidth),
                 clampMaxThenMin(Sub(canvasHeight, childConstraints.Top),
                                 childConstraints.MinHeight,
                                 childConstraints.MaxHeight)),
            childConstraints)

RootWidgetRender(r, cx, b, path) ==
    IF r.child = <<>> THEN Return(b.Size, nil, <<>>)
    ELSE LET childBox == RootChildBox(cx, GetConstraints(r.child[1]))
         IN  Render(r.child[1], ChildContext(cx, childBox), childBox,
                    Append(path, 1))

(* OverlayWidget *)

\* Mutant: a rigid axis keeps the space left after the offset.
overlayAxis_rigidKeepsAvailable(available, min, max) ==
    IF Eq(min, max) THEN available
    ELSE LET lowered == IF Lt(max, available) THEN max ELSE available
         IN  IF Gt(min, lowered) THEN min ELSE lowered

\* Mutant: a flexible axis is lowered to max but never raised to min.
overlayAxis_noMin(available, min, max) ==
    IF Eq(min, max) THEN min
    ELSE IF Lt(max, available) THEN max ELSE available

\* Rigid on the axis (min == max): exactly min; flexible: lowered to max,
\* then raised to min.
overlayAxis(available, min, max) ==
    IF Eq(min, max) THEN min
    ELSE LET lowered == IF Lt(max, available) THEN max ELSE available
         IN  IF Gt(min, lowered) THEN min ELSE lowered

\* Mutant: the child is sized from the overlay's full extent, offsets
\* not subtracted.
OverlayChildBox_fullExtent(b, childConstraints) ==
    Box(Point(Add(b.Position.X, childConstraints.Left),
              Add(b.Position.Y, childConstraints.Top)),
        Size(overlayAxis(b.Size.Width,
                         childConstraints.MinWidth, childConstraints.MaxWidth),
             overlayAxis(b.Size.Height,
                         childConstraints.MinHeight,
                         childConstraints.MaxHeight)),
        childConstraints)

OverlayChildBox(b, childConstraints) ==
    Box(Point(Add(b.Position.X, childConstraints.Left),
              Add(b.Position.Y, childConstraints.Top)),
        Size(overlayAxis(Sub(b.Size.Width, childConstraints.Left),
                         childConstraints.MinWidth, childConstraints.MaxWidth),
             overlayAxis(Sub(b.Size.Height, childConstraints.Top),
                         childConstraints.MinHeight,
                         childConstraints.MaxHeight)),
        childConstraints)

\* Mutant: the used size is that of the last child rendered.
overlayAdvance_last(maxUsedSize, childUsedSize) == childUsedSize

overlayAdvance(maxUsedSize, childUsedSize) ==
    Size(IF Gt(childUsedSize.Width, maxUsedSize.Width)
         THEN childUsedSize.Width ELSE maxUsedSize.Width,
         IF Gt(childUsedSize.Height, maxUsedSize.Height)
         THEN childUsedSize.Height ELSE maxUsedSize.Height)

overlayLoop(o, cx, b, path, i, acc) ==
    IF i > Len(o.children) THEN Return(acc.maxUsedSize, nil, acc.calls)
    ELSE LET child == o.children[i]
             childBox == OverlayChildBox(b, GetConstraints(child))
             r == Render(child, ChildContext(cx, childBox), childBox,
                         Append(path, i))
         IN  IF chkE(r.err)
             THEN Return(ZeroSize, r.err, acc.calls \o r.calls)
             ELSE overlayLoop(o, cx, b, path, i + 1,
                              [maxUsedSize |->
                                   overlayAdvance(acc.maxUsedSize, r.usedSize),
                               calls |-> acc.calls \o r.calls])

\* Mutant: an overlay rendered into an empty box culls its children.
OverlayWidgetRender_cullsEmptyBox(o, cx, b, path) ==
    IF b.Size.Width = Zero \/ b.Size.Height = Zero
    THEN Return(ZeroSize, nil, <<>>)
    ELSE overlayLoop(o, cx, b, path, 1,
                     [maxUsedSize |-> ZeroSize, calls |-> <<>>])

OverlayWidgetRender(o, cx, b, path) ==
    overlayLoop(o, cx, b, path, 1, [maxUsedSize |-> ZeroSize, calls |-> <<>>])

(* DirectionWidget *)

\* Mutant: the size is never lowered to max.
directionAxis_noMax(available, min, max) ==
    IF Eq(min, max) THEN min
    ELSE IF Lt(available, min) THEN min ELSE available

\* Calculate child size (respecting rigid constraints)
directionAxis(available, min, max) ==
    IF Eq(min, max) THEN min
    ELSE LET lowered == IF Gt(available, max) THEN max ELSE available
         IN  IF Lt(lowered, min) THEN min ELSE lowered

DirectionChildSize(b, childConstraints) ==
    Size(directionAxis(b.Size.Width, childConstraints.MinWidth,
                       childConstraints.MaxWidth),
         directionAxis(b.Size.Height, childConstraints.MinHeight,
                       childConstraints.MaxHeight))

\* Mutant: south is anchored to the top edge like north.
DirectionChildPosition_southIsNorth(gravity, b, childSize) ==
    LET px == b.Position.X
        py == b.Position.Y
        centerX == Add(px, Div(Sub(b.Size.Width, childSize.Width), F(2)))
        centerY == Add(py, Div(Sub(b.Size.Height, childSize.Height), F(2)))
        farX == Sub(Add(px, b.Size.Width), childSize.Width)
        farY == Sub(Add(py, b.Size.Height), childSize.Height)
    IN  CASE gravity = GravityCenter -> Point(centerX, centerY)
          [] gravity = GravityNorth -> Point(centerX, py)
          [] gravity = GravitySouth -> Point(centerX, py)
          [] gravity = GravityEast -> Point(farX, centerY)
          [] gravity = GravityWest -> Point(px, centerY)
          [] gravity = GravityNorthEast -> Point(farX, py)
          [] gravity = GravityNorthWest -> Point(px, py)
          [] gravity = GravitySouthEast -> Point(farX, farY)
          [] gravity = GravitySouthWest -> Point(px, farY)
          [] OTHER -> Point(Zero, Zero)

\* Calculate position based on gravity; childX, childY stay 0 when no case
\* of the switch matches.
\* Mutant: an unrecognized gravity anchors the child at the parent box's
\* top-left corner.
DirectionChildPosition_unknownIsNorthWest(gravity, b, childSize) ==
    LET px == b.Position.X
        py == b.Position.Y
        centerX == Add(px, Div(Sub(b.Size.Width, childSize.Width), F(2)))
        centerY == Add(py, Div(Sub(b.Size.Height, childSize.Height), F(2)))
        farX == Sub(Add(px, b.Size.Width), childSize.Width)
        farY == Sub(Add(py, b.Size.Height), childSize.Height)
    IN  CASE gravity = GravityCenter -> Point(centerX, centerY)
          [] gravity = GravityNorth -> Point(centerX, py)
          [] gravity = GravitySouth -> Point(centerX, farY)
          [] gravity = GravityEast -> Point(farX, centerY)
          [] gravity = GravityWest -> Point(px, centerY)
          [] gravity = GravityNorthEast -> Point(farX, py)
          [] gravity = GravityNorthWest -> Point(px, py)
          [] gravity = GravitySouthEast -> Point(farX, farY)
          [] gravity = GravitySouthWest -> Point(px, farY)
          [] OTHER -> Point(px, py)

DirectionChildPosition(gravity, b, childSize) ==
    LET px == b.Position.X
        py == b.Position.Y
        centerX == Add(px, Div(Sub(b.Size.Width, childSize.Width), F(2)))
        centerY == Add(py, Div(Sub(b.Size.Height, childSize.Height), F(2)))
        farX == Sub(Add(px, b.Size.Width), childSize.Width)
        farY == Sub(Add(py, b.Size.Height), childSize.Height)
    IN  CASE gravity = GravityCenter -> Point(centerX, centerY)
          [] gravity = GravityNorth -> Point(centerX, py)
          [] gravity = GravitySouth -> Point(centerX, farY)
          [] gravity = GravityEast -> Point(farX, centerY)
          [] gravity = GravityWest -> Point(px, centerY)
          [] gravity = GravityNorthEast -> Point(farX, py)
          [] gravity = GravityNorthWest -> Point(px, py)
          [] gravity = GravitySouthEast -> Point(farX, farY)
          [] gravity = GravitySouthWest -> Point(px, farY)
          [] OTHER -> Point(Zero, Zero)

DirectionChildBox(d, b, childConstraints) ==
    LET childSize == DirectionChildSize(b, childConstraints)
    IN  Box(DirectionChildPosition(d.gravity, b, childSize), childSize,
            childConstraints)

\* Mutant: without a child the widget reports the zero size.
DirectionWidgetRender_nilIsZero(d, cx, b, path) ==
    IF d.child = <<>> THEN Return(ZeroSize, nil, <<>>)
    ELSE LET childBox == DirectionChildBox(d, b, GetConstraints(d.child[1]))
         IN  Render(d.child[1], ChildContext(cx, childBox), childBox,
                    Append(path, 1))

DirectionWidgetRender(d, cx, b, path) ==
    IF d.child = <<>> THEN Return(b.Size, nil, <<>>)
    ELSE LET childBox == DirectionChildBox(d, b, GetConstraints(d.child[1]))
         IN  Render(d.child[1], ChildContext(cx, childBox), childBox,
                    Append(path, 1))

(* Dynamic dispatch of Widget.Render, with the call recorded *)

Render(w, cx, b, path) ==
    LET r == CASE w.kind = "Filler" -> FillerRender(w, cx, b)
               [] w.kind = "Leaf" -> LeafRender(w, cx, b)
               [] w.kind = "Container" -> ContainerRender(w, cx, b, path)
               [] w.kind = "RootWidget" -> RootWidgetRender(w, cx, b, path)
               [] w.kind = "OverlayWidget" -> OverlayWidgetRender(w, cx, b, path)
               [] w.kind = "DirectionWidget" ->
                      DirectionWidgetRender(w, cx, b, path)
    IN  Return(r.usedSize, r.err, <<Call(path, w, cx, b, r)>> \o r.calls)

----------------------------------------------------------------------------
(* Inputs of the render passes explored *)

SeqsUpTo(S, n) == UNION {[1..k -> S] : k \in 0..n}

DrawErrors == {"draw failed", "out of memory"}

\* A rigid 50x20 filler.
RigidFill == Fill(NewRigidConstraints(50, 20))

\* A filler that may take 50..120 by 20..60.
BoundedFill == Fill(NewFlexConstraints(50, 20, 120, 60))

\* Constraints whose min exceeds their max (nothing validates them).
MalformedFill == Fill(NewFlexConstraints(50, 20, 20, 10))

\* A leaf that reports less than it is assigned.
SmallLeaf == Leaf(DefaultConstraints, Size(F(10), F(5)), nil)

FailingLeaf(e) == Leaf(NewRigidConstraints(50, 20), ZeroSize, e)

\* The weight 0.1, which float32 holds as 13421773 / 2^27.
Tenth == Div(F(1), F(10))

FlexChildren ==
    {NewRigidChild(RigidFill), NewRigidChild(FailingLeaf("draw failed")),
     NewFlexChild(MalformedFill, F(1)), NewFlexChild(SmallLeaf, F(1)),
     NewFlexChild(Fill(DefaultConstraints), Tenth)}
    \cup {NewFlexChild(Fill(DefaultConstraints), F(w)) : w \in 0..MaxWeight}
    \cup {NewFlexChild(BoundedFill, F(w)) : w \in {0, MaxWeight}}

Directions == {DirectionRow, DirectionColumn, DirectionColumn + 1}

BoxSizes == {Size(F(300), F(100)), Size(F(100), F(300)), Size(F(40), F(30))}

Boxes(w) ==
    {Box(Point(Zero, Zero), sz, GetConstraints(w)) : sz \in BoxSizes}
    \cup {Box(Point(F(7), F(3)), Size(F(300), F(100)), GetConstraints(w))}

\* Unbounded constraints at top 30, left 40.
OffsetConstraints == NewConstraints(0, 0, Unbounded, Unbounded, 30, 40)

\* A filler whose width bounds are the two zeros, min +0 and max -0: they
\* are equal as float32 values, so it is rigid on the width; its height
\* may take 0..60.
SignedZeroFill ==
    Fill([NewFlexConstraints(0, 0, 0, 60) EXCEPT !.MaxWidth = Neg(Zero)])

\* Children that carry a position: (top, left) offsets inside the parent.
PlacedChildren ==
    {Fill(DefaultConstraints), SignedZeroFill,
     Fill(NewRigidConstraintsAt(64, 64, 10, 20)),
     Fill(NewConstraints(50, 30, 120, 30, 0, 400)),
     Fill(OffsetConstraints),
     Fill(NewConstraints(50, 20, 20, 10, 5, 5)),
     SmallLeaf, FailingLeaf("draw failed")}

Gravities == GravityCenter..(GravitySouthWest + 1)

\* The widget tree of cmd/hello, with its leaves and row directions varied.
TreeLeaves == {Fill(DefaultConstraints)} \cup {FailingLeaf(e) : e \in DrawErrors}

DemoRow(d, a, b) ==
    NewContainer(d, <<NewFlexChild(a, F(1)), NewFlexChild(b, F(1))>>,
                 DefaultConstraints)

DemoTree(d1, d2, a, b, c, d, e) ==
    Root(<<Overlay(<<NewContainer(DirectionColumn,
                                  <<NewFlexChild(DemoRow(d1, a, b), F(1)),
                                    NewFlexChild(DemoRow(d2, c, d), F(1))>>,
                                  DefaultConstraints),
                     NewDirectionWidget(<<e>>, GravityCenter,
                                        DefaultConstraints)>>,
                   DefaultConstraints)>>)

DemoTrees ==
    {DemoTree(d1, d2, a, b, c, d, e) :
        d1 \in {DirectionRow, DirectionColumn + 1},
        d2 \in {DirectionRow, DirectionColumn + 1},
        a \in TreeLeaves, b \in TreeLeaves, c \in TreeLeaves,
        d \in TreeLeaves,
        e \in {Fill(NewRigidConstraints(64, 64)), FailingLeaf("draw failed")}}

WindowSizes == {<<640, 480>>, <<100, 8>>, <<0, 0>>}

\* The context the application builds for a frame, and the dummy root box.
FrameContext(width, height) == Context(width, height, NilBox, ZeroSize)

----------------------------------------------------------------------------
(* The state machine: a pass is prepared (Init) and then run by the Render *)
(* method of the widget it starts at.                                      *)

\* A pass started by the application at the root widget.
InitFrame(w) ==
    \E ws \in WindowSizes :
        /\ widget = w
        /\ ctx = FrameContext(ws[1], ws[2])
        /\ box = ZeroBox

\* A pass started at a widget placed in some box.
InitAt(w) ==
    \E b \in Boxes(w) :
        /\ widget = w
        /\ ctx = Context(640, 480, <<b>>, b.Size)
        /\ box = b

Init ==
    /\ \/ \E c \in {<<>>} \cup {<<w>> : w \in PlacedChildren} :
             InitFrame(Root(c))
       \/ \E t \in DemoTrees : InitFrame(t)
       \/ \E cs \in SeqsUpTo(PlacedChildren, MaxChildren),
             c \in {DefaultConstraints, OffsetConstraints} :
             InitFrame(Root(<<Overlay(cs, c)>>))
       \/ \E c \in {<<>>} \cup {<<w>> : w \in PlacedChildren},
             g \in Gravities :
             InitFrame(Root(<<NewDirectionWidget(c, g, DefaultConstraints)>>))
       \/ \E d \in {DirectionRow, DirectionColumn},
             cs \in SeqsUpTo(FlexChildren, MaxChildren) :
             InitFrame(Root(<<NewContainer(d, cs, DefaultConstraints)>>))
       \/ \E d \in Directions, cs \in SeqsUpTo(FlexChildren, MaxChildren) :
             InitAt(NewContainer(d, cs, DefaultConstraints))
       \/ \E cs \in SeqsUpTo(PlacedChildren, MaxChildren) :
             InitAt(Overlay(cs, DefaultConstraints))
       \/ \E c \in {<<>>} \cup {<<w>> : w \in PlacedChildren},
             g \in Gravities :
             InitAt(NewDirectionWidget(c, g, DefaultConstraints))
       \/ InitAt(Root(<<>>))
       \/ InitAt(Fill(DefaultConstraints))
    /\ result = Return(ZeroSize, nil, <<>>)
    /\ pc = "ready"

RunRender(kind) ==
    /\ pc = "ready"
    /\ widget.kind = kind
    /\ result' = Render(widget, ctx, box, <<>>)
    /\ pc' = "done"
    /\ UNCHANGED <<widget, ctx, box>>

RenderContainer == RunRender("Container")

RenderRootWidget == RunRender("RootWidget")

RenderOverlayWidget == RunRender("OverlayWidget")

RenderDirectionWidget == RunRender("DirectionWidget")

RenderFiller == RunRender("Filler")

\* The tree was changed between passes: what the last pass returned no
\* longer describes it, and the next pass starts afresh.
TreeChanged ==
    /\ result' = Return(ZeroSize, nil, <<>>)
    /\ pc' = "ready"
    /\ UNCHANGED <<ctx, box>>

\* Container.AddChild: append a child to the container.
AddChild ==
    /\ widget.kind = "Container"
    /\ Len(widget.Children) < MaxChildren
    /\ \E child \in FlexChildren :
          widget' = [widget EXCEPT !.Children = Append(@, child)]
    /\ TreeChanged

\* Container.Flex: append a flexible child of the given weight.
Flex ==
    /\ widget.kind = "Container"
    /\ Len(widget.Children) < MaxChildren
    /\ \E c \in {fc \in FlexChildren : fc.Type = FlexTypeFlex} :
          widget' = [widget EXCEPT
                        !.Children =
                            Append(@, [Widget |-> c.Widget,
                                       Type |-> FlexTypeFlex,
                                       Weight |-> c.Weight])]
    /\ TreeChanged

\* Container.Rigid: append a rigid child.
Rigid ==
    /\ widget.kind = "Container"
    /\ Len(widget.Children) < MaxChildren
    /\ \E c \in {fc \in FlexChildren : fc.Type = FlexTypeRigid} :
          widget' = [widget EXCEPT
                        !.Children =
                            Append(@, [Widget |-> c.Widget,
                                       Type |-> FlexTypeRigid,
                                       Weight |-> Zero])]
    /\ TreeChanged

\* OverlayWidget.Child: append a child on top of the earlier ones.
Child ==
    /\ widget.kind = "OverlayWidget"
    /\ Len(widget.children) < MaxChildren
    /\ \E child \in PlacedChildren :
          widget' = [widget EXCEPT !.children = Append(@, child)]
    /\ TreeChanged

Next ==
    \/ RenderContainer
    \/ RenderRootWidget
    \/ RenderOverlayWidget
    \/ RenderDirectionWidget
    \/ RenderFiller
    \/ AddChild
    \/ Flex
    \/ Rigid
    \/ Child

Spec == Init /\ [][Next]_vars

----------------------------------------------------------------------------
(* Observations of a finished pass *)

Done == pc = "done"

Rendered(p) == \E k \in DOMAIN result.calls : result.calls[k].path = p

CallOf(p) ==
    result.calls[CHOOSE k \in DOMAIN result.calls : result.calls[k].path = p]

ChildOf(w, i) ==
    CASE w.kind = "Container" -> w.Children[i].Widget
      [] w.kind = "OverlayWidget" -> w.children[i]
      [] OTHER -> w.child[1]

RECURSIVE WidgetAt(_, _)
WidgetAt(w, p) ==
    IF p = <<>> THEN w ELSE WidgetAt(ChildOf(w, Head(p)), Tail(p))

\* The calls of the pass that laid out a row or a column.
LayoutCalls ==
    {k \in DOMAIN result.calls :
        /\ result.calls[k].kind = "Container"
        /\ WidgetAt(widget, result.calls[k].path).Direction
              \in {DirectionRow, DirectionColumn}}

RECURSIVE SumSeq(_)
\* The sum the code accumulates: from zero, in sequence order.
SumSeq(q) ==
    IF q = <<>> THEN Zero
    ELSE Add(SumSeq(SubSeq(q, 1, Len(q) - 1)), q[Len(q)])

Main(sz, d) == IF d = DirectionRow THEN sz.Width ELSE sz.Height

Cross(sz, d) == IF d = DirectionRow THEN sz.Height ELSE sz.Width

MinMain(c, d) == IF d = DirectionRow THEN c.MinWidth ELSE c.MinHeight

MaxMain(c, d) == IF d = DirectionRow THEN c.MaxWidth ELSE c.MaxHeight

IsFlex(child) == child.Type # FlexTypeRigid

RigidMain(W) ==
    SumSeq([i \in 1..Len(W.Children) |->
               IF IsFlex(W.Children[i]) THEN Zero
               ELSE MinMain(GetConstraints(W.Children[i].Widget), W.Direction)])

TotalWeight(W) ==
    SumSeq([i \in 1..Len(W.Children) |->
               IF IsFlex(W.Children[i]) THEN W.Children[i].Weight ELSE Zero])

FlexMain(W, b) ==
    LET rest == Sub(Main(b.Size, W.Direction), RigidMain(W))
    IN  IF Lt(rest, Zero) THEN Zero ELSE rest

\* v is x clamped into the interval [lo, hi].
IsClamped(v, x, lo, hi) ==
    /\ Le(lo, v) /\ Le(v, hi)
    /\ Lt(x, lo) => v = lo
    /\ Gt(x, hi) => v = hi
    /\ (Le(lo, x) /\ Le(x, hi)) => v = x

AbsF(a) == IF IsNaN(a) THEN a ELSE [a EXCEPT !.neg = FALSE]

\* x and y are equal up to float32 rounding: they differ by at most
\* 2^-20 of the larger of their magnitudes (16 units in the last place).
Near(x, y) ==
    Le(Mul(F(2^20), AbsF(Sub(x, y))),
       IF Lt(AbsF(x), AbsF(y)) THEN AbsF(y) ELSE AbsF(x))

\* The main-axis size the container call k assigned to its i-th child.
AssignedMain(k, i) ==
    Main(CallOf(Append(result.calls[k].path, i)).box.Size,
         WidgetAt(widget, result.calls[k].path).Direction)

IsDefaultFlex(child, d) ==
    /\ IsFlex(child)
    /\ MinMain(GetConstraints(child.Widget), d) = Zero
    /\ MaxMain(GetConstraints(child.Widget), d) = F(Unbounded)

----------------------------------------------------------------------------
\* x is zero or a finite value of magnitude from 2^-30 up to, not
\* including, 2^30: products and quotients of a few such values neither
\* overflow nor underflow.
Moderate(x) ==
    /\ x.kind = "finite"
    /\ x.m = 0 \/ (Top(x) > -30 /\ Top(x) <= 30)

\* The call k of a row or column gave every rendered child its size: a
\* rigid child its main-axis minimum, and, when the total weight is
\* positive, a flex child its share flexMain * weight / totalWeight (when
\* that is a number) clamped into [min, max] if min <= max, and max if
\* min > max.
SharesAssigned(k) ==
    LET call == result.calls[k]
        W == WidgetAt(widget, call.path)
        d == W.Direction
        T == TotalWeight(W)
    IN  \A i \in 1..Len(W.Children) :
          Rendered(Append(call.path, i)) =>
            LET child == W.Children[i]
                cc == GetConstraints(child.Widget)
                share == Div(Mul(FlexMain(W, call.box), child.Weight), T)
            IN  /\ ~IsFlex(child) => AssignedMain(k, i) = MinMain(cc, d)
                /\ (IsFlex(child) /\ Gt(T, Zero) /\ ~IsNaN(share))
                     => /\ Le(MinMain(cc, d), MaxMain(cc, d))
                             => IsClamped(AssignedMain(k, i), share,
                                          MinMain(cc, d), MaxMain(cc, d))
                        /\ Gt(MinMain(cc, d), MaxMain(cc, d))
                             => AssignedMain(k, i) = MaxMain(cc, d)

\* The call k is of a row or column in a space A, 0 <= A <= Unbounded,
\* whose only children are two flex children with min 0, unbounded max and
\* non-negative weights of positive total, both rendered; A and the
\* weights are moderate.
TwoFlexChildren(k) ==
    LET call == result.calls[k]
        W == WidgetAt(widget, call.path)
        d == W.Direction
    IN  /\ Len(W.Children) = 2
        /\ IsDefaultFlex(W.Children[1], d)
        /\ IsDefaultFlex(W.Children[2], d)
        /\ Le(Zero, W.Children[1].Weight) /\ Moderate(W.Children[1].Weight)
        /\ Le(Zero, W.Children[2].Weight) /\ Moderate(W.Children[2].Weight)
        /\ Gt(TotalWeight(W), Zero)
        /\ Le(Zero, Main(call.box.Size, d))
        /\ Le(Main(call.box.Size, d), F(Unbounded))
        /\ Moderate(Main(call.box.Size, d))
        /\ Rendered(Append(call.path, 2))

\* The sizes given to the two children of call k are in the ratio of their
\* weights, up to float32 rounding.
InWeightRatio(k) ==
    Near(Mul(AssignedMain(k, 1),
             WidgetAt(widget, result.calls[k].path).Children[2].Weight),
         Mul(AssignedMain(k, 2),
             WidgetAt(widget, result.calls[k].path).Children[1].Weight))

----------------------------------------------------------------------------
(* C1 as stated: in a row or column, every rigid child is assigned its     *)
(* main-axis minimum; when the total weight is positive every flex child   *)
(* is assigned flexMain * weight / totalWeight clamped into [min, max];    *)
(* two flex children with min 0 and unbounded max that are the only        *)
(* children get sizes in the ratio of their weights, within floating-point *)
(* tolerance, that sum to the available main-axis space.                   *)
C1_SumIsAvailable ==
    Done =>
      \A k \in LayoutCalls :
        /\ SharesAssigned(k)
        /\ TwoFlexChildren(k)
             => /\ InWeightRatio(k)
                /\ Add(AssignedMain(k, 1), AssignedMain(k, 2))
                     = Main(result.calls[k].box.Size,
                            WidgetAt(widget, result.calls[k].path).Direction)

(* C1, amended: in a row or column, every rigid child is assigned its      *)
(* main-axis minimum; when the total weight is positive every flex child   *)
(* is assigned the float32 share flexMain * weight / totalWeight clamped   *)
(* into [min, max] if min <= max, and max if min > max; two flex children  *)
(* with min 0, unbounded max and non-negative moderate weights that are    *)
(* the only children in a moderate space A >= 0 get sizes that are in the  *)
(* ratio of their weights, and whose float32 sum is A, within 2^-20 of the *)
(* magnitudes compared.                                                    *)
C1_FlexDistribution ==
    Done =>
      \A k \in LayoutCalls :
        /\ SharesAssigned(k)
        /\ TwoFlexChildren(k)
             => /\ InWeightRatio(k)
                /\ Near(Add(AssignedMain(k, 1), AssignedMain(k, 2)),
                        Main(result.calls[k].box.Size,
                             WidgetAt(widget, result.calls[k].path).Direction))

\* A row of 40 with two flex children of weights 0.1 and 2: they get
\* 40 * 0.1 / 2.1 and 40 * 2 / 2.1 as float32 computes them, which sum to
\* 40 + 2^-18 (40.000004), not to 40.
C1_Witness ==
    /\ Done
    /\ widget = NewContainer(DirectionRow,
                             <<NewFlexChild(Fill(DefaultConstraints), Tenth),
                               NewFlexChild(Fill(DefaultConstraints), F(2))>>,
                             DefaultConstraints)
    /\ box.Size.Width = F(40)
    /\ 1 \in LayoutCalls
    /\ TwoFlexChildren(1)
    /\ CallOf(<<1>>).box.Size.Width =
          Div(Mul(F(40), Tenth), Add(Tenth, F(2)))
    /\ CallOf(<<2>>).box.Size.Width =
          Div(Mul(F(40), F(2)), Add(Tenth, F(2)))
    /\ Add(CallOf(<<1>>).box.Size.Width, CallOf(<<2>>).box.Size.Width)
          = Finite(FALSE, 10485761, -18)
    /\ Add(CallOf(<<1>>).box.Size.Width, CallOf(<<2>>).box.Size.Width)
          # F(40)

----------------------------------------------------------------------------
(* The traversal a pass is expected to make, computed from the tree alone *)

\* The error a widget raises by itself (not one of a descendant).
OwnError(w) ==
    CASE w.kind = "Leaf" -> w.err
      [] w.kind = "Container" ->
            IF Len(w.Children) > 0
               /\ w.Direction \notin {DirectionRow, DirectionColumn}
            THEN errInvalidDirection ELSE nil
      [] OTHER -> nil

NumChildren(w) ==
    CASE w.kind = "Container" -> Len(w.Children)
      [] w.kind = "OverlayWidget" -> Len(w.children)
      [] w.kind \in {"RootWidget", "DirectionWidget"} -> Len(w.child)
      [] OTHER -> 0

RECURSIVE Preorder(_, _)
RECURSIVE PreorderFrom(_, _, _)
\* The paths of w's subtree (w at path p) in depth-first, sibling order.
Preorder(w, p) == <<p>> \o PreorderFrom(w, p, 1)

PreorderFrom(w, p, i) ==
    IF i > NumChildren(w) THEN <<>>
    ELSE Preorder(ChildOf(w, i), Append(p, i)) \o PreorderFrom(w, p, i + 1)

IsPrefix(p, q) == Len(p) <= Len(q) /\ SubSeq(q, 1, Len(p)) = p

LoggedPaths == [k \in DOMAIN result.calls |-> result.calls[k].path]

----------------------------------------------------------------------------
(* C2: the pass returns the first error met in depth-first, sibling-order  *)
(* traversal; nothing after the failing widget is rendered, and every      *)
(* ancestor of the failing widget returns that same error.                 *)
C2_FirstErrorPropagates ==
    Done =>
      LET order == Preorder(widget, <<>>)
          failing == {k \in DOMAIN order :
                         OwnError(WidgetAt(widget, order[k])) # nil}
      IN  IF failing = {}
          THEN result.err = nil /\ LoggedPaths = order
          ELSE LET f == CHOOSE k \in failing : \A j \in failing : k <= j
                   e == OwnError(WidgetAt(widget, order[f]))
               IN  /\ result.err = e
                   /\ LoggedPaths = SubSeq(order, 1, f)
                   /\ \A k \in DOMAIN result.calls :
                         result.calls[k].err =
                            IF IsPrefix(result.calls[k].path, order[f])
                            THEN e ELSE nil

\* In the cmd/hello tree the second leaf of the first row fails with one
\* error and a leaf of the second row would fail with another: the root
\* returns the first, and the second row is never rendered.
C2_Witness ==
    /\ Done
    /\ widget.kind = "RootWidget"
    /\ Rendered(<<1, 1, 1, 2>>)
    /\ CallOf(<<1, 1, 1, 1>>).err = nil
    /\ CallOf(<<1, 1, 1, 2>>).err = "out of memory"
    /\ OwnError(WidgetAt(widget, <<1, 1, 2, 1>>)) = "draw failed"
    /\ ~Rendered(<<1, 1, 2>>)
    /\ ~Rendered(<<1, 2>>)
    /\ result.err = "out of memory"

----------------------------------------------------------------------------
\* The calls of the pass made to a container of unrecognized direction.
InvalidDirectionCalls ==
    {k \in DOMAIN result.calls :
        /\ result.calls[k].kind = "Container"
        /\ WidgetAt(widget, result.calls[k].path).Direction
              \notin {DirectionRow, DirectionColumn}}

RendersNoChild(k) ==
    \A j \in DOMAIN result.calls :
        j # k => ~IsPrefix(result.calls[k].path, result.calls[j].path)

(* C3 as stated: rendering a container of unrecognized direction fails     *)
(* with 'invalid direction' and renders no child, whatever the number of   *)
(* children.                                                               *)
C3_AnyChildCount ==
    Done =>
      \A k \in InvalidDirectionCalls :
          /\ result.calls[k].err = errInvalidDirection
          /\ RendersNoChild(k)

(* C3, amended: rendering a container of unrecognized direction that has   *)
(* at least one child fails with 'invalid direction' and renders no child; *)
(* with no children it returns the zero size and no error.                 *)
C3_InvalidDirection ==
    Done =>
      \A k \in InvalidDirectionCalls :
          /\ RendersNoChild(k)
          /\ result.calls[k].usedSize = ZeroSize
          /\ result.calls[k].err =
                IF Len(WidgetAt(widget, result.calls[k].path).Children) > 0
                THEN errInvalidDirection ELSE nil

C3_Witness ==
    /\ Done
    /\ widget.kind = "Container"
    /\ widget.Direction \notin {DirectionRow, DirectionColumn}
    /\ Len(widget.Children) >= 2
    /\ result.err = errInvalidDirection
    /\ Len(result.calls) = 1

----------------------------------------------------------------------------
\* The size the root resolves on one axis, from the canvas extent, the
\* child's offset and its min and max on that axis.
RootFill(extent, offset, min, max) ==
    LET raw == Sub(F(extent), offset)
    IN  IF Gt(raw, max) THEN (IF Lt(max, min) THEN min ELSE max)
        ELSE IF Lt(raw, min) THEN min ELSE raw

(* C4: a root with a child hands it a box at (left, top) whose size on     *)
(* each axis is canvas extent - offset, lowered to max and then raised to  *)
(* min; the size is never below the child's minimum.                       *)
C4_RootBox ==
    Done =>
      \A k \in DOMAIN result.calls :
        LET call == result.calls[k]
            W == WidgetAt(widget, call.path)
        IN  (call.kind = "RootWidget" /\ W.child # <<>>) =>
              LET cc == GetConstraints(W.child[1])
                  b == CallOf(Append(call.path, 1)).box
              IN  /\ b.Position = Point(cc.Left, cc.Top)
                  /\ b.Size.Width = RootFill(call.ctx.WindowWidth, cc.Left,
                                             cc.MinWidth, cc.MaxWidth)
                  /\ b.Size.Height = RootFill(call.ctx.WindowHeight, cc.Top,
                                              cc.MinHeight, cc.MaxHeight)
                  /\ Le(cc.MinWidth, b.Size.Width)
                  /\ Le(cc.MinHeight, b.Size.Height)

\* A child whose min exceeds its max, on a canvas larger than both: the
\* child gets its minimum.
C4_Witness ==
    /\ Done
    /\ widget.kind = "RootWidget"
    /\ widget.child # <<>>
    /\ Lt(GetConstraints(widget.child[1]).MaxWidth,
          GetConstraints(widget.child[1]).MinWidth)
    /\ Gt(F(ctx.WindowWidth), GetConstraints(widget.child[1]).MinWidth)
    /\ CallOf(<<1>>).box.Size.Width = GetConstraints(widget.child[1]).MinWidth
    /\ CallOf(<<1>>).box.Position = Point(F(5), F(5))

----------------------------------------------------------------------------
\* The calls to a row with children that are all well-behaved (each was
\* rendered and reported exactly the size it was assigned), whose flex children all have
\* min 0, unbounded max and positive weight, and whose rigid minimums fit.
WellBehavedRows ==
    {k \in LayoutCalls :
        LET call == result.calls[k]
            W == WidgetAt(widget, call.path)
        IN  /\ W.Direction = DirectionRow
            /\ Len(W.Children) > 0
            /\ Le(RigidMain(W), call.box.Size.Width)
            /\ \A i \in 1..Len(W.Children) :
                  /\ Rendered(Append(call.path, i))
                  /\ CallOf(Append(call.path, i)).err = nil
                  /\ CallOf(Append(call.path, i)).usedSize
                        = CallOf(Append(call.path, i)).box.Size
                  /\ IsFlex(W.Children[i]) =>
                        /\ IsDefaultFlex(W.Children[i], DirectionRow)
                        /\ Gt(W.Children[i].Weight, Zero)}

HasFlexChild(W) == \E i \in 1..Len(W.Children) : IsFlex(W.Children[i])

\* Child i of the row call k starts where the children before it end.
Abuts(k, i) ==
    LET p == result.calls[k].path
    IN  CallOf(Append(p, i)).box.Position.X =
           Add(result.calls[k].box.Position.X,
               SumSeq([j \in 1..(i - 1) |->
                          CallOf(Append(p, j)).box.Size.Width]))

(* C5 as stated: a row of well-behaved children places each child at the   *)
(* row's x plus the widths of the children before it and reports used      *)
(* width A.                                                                *)
C5_UsedWidthIsAvailable ==
    Done =>
      \A k \in WellBehavedRows :
        /\ \A i \in 1..Len(WidgetAt(widget, result.calls[k].path).Children) :
              Abuts(k, i)
        /\ result.calls[k].usedSize.Width = result.calls[k].box.Size.Width

\* The width the row call k is to give its i-th child: a rigid child's
\* minimum, a flex child's float32 share of the flexible width.
ExpectedWidth(k, i) ==
    LET W == WidgetAt(widget, result.calls[k].path)
    IN  IF IsFlex(W.Children[i])
        THEN Div(Mul(FlexMain(W, result.calls[k].box), W.Children[i].Weight),
                 TotalWeight(W))
        ELSE GetConstraints(W.Children[i].Widget).MinWidth

(* C5, amended: a row of well-behaved children gives a rigid child its     *)
(* minimum width and a flex child its float32 share (A - R) * weight /     *)
(* totalWeight, places each child at the row's x plus the float32 running  *)
(* sum of the widths of the children before it, and reports as used width  *)
(* the float32 running sum of the children's widths: that is R, not A,     *)
(* when it has no flex child.                                              *)
C5_WellBehavedRow ==
    Done =>
      \A k \in WellBehavedRows :
        LET W == WidgetAt(widget, result.calls[k].path)
        IN  /\ \A i \in 1..Len(W.Children) :
                  /\ AssignedMain(k, i) = ExpectedWidth(k, i)
                  /\ Abuts(k, i)
            /\ result.calls[k].usedSize.Width =
                  SumSeq([i \in 1..Len(W.Children) |-> ExpectedWidth(k, i)])
            /\ ~HasFlexChild(W) =>
                  result.calls[k].usedSize.Width = RigidMain(W)

\* The example: A = 300, a rigid child of min-width 50 and two weight-1
\* flex children get widths 50, 125, 125 at x = 0, 50, 175.
C5_Witness ==
    /\ Done
    /\ widget = NewContainer(DirectionRow,
                             <<NewRigidChild(RigidFill),
                               NewFlexChild(Fill(DefaultConstraints), F(1)),
                               NewFlexChild(Fill(DefaultConstraints), F(1))>>,
                             DefaultConstraints)
    /\ box.Position = Point(Zero, Zero)
    /\ box.Size = Size(F(300), F(100))
    /\ 1 \in WellBehavedRows
    /\ [i \in 1..3 |-> CallOf(<<i>>).box.Size.Width] = <<F(50), F(125), F(125)>>
    /\ [i \in 1..3 |-> CallOf(<<i>>).box.Position.X] = <<F(0), F(50), F(175)>>
    /\ result.usedSize.Width = F(300)

----------------------------------------------------------------------------
\* The used sizes returned by the children of the container call k, in order.
ChildUsed(k) ==
    [i \in 1..Len(WidgetAt(widget, result.calls[k].path).Children) |->
        CallOf(Append(result.calls[k].path, i)).usedSize]

\* m is the largest of the values of the non-empty sequence q.
IsMaxOf(m, q) ==
    /\ \E i \in DOMAIN q : q[i] = m
    /\ \A i \in DOMAIN q : Le(q[i], m)

(* C6: a container with children whose Render succeeds returns, on the     *)
(* main axis, the sum of the used sizes its children returned and, on the  *)
(* cross axis, their maximum.                                              *)
C6_ContainerUsedSize ==
    Done =>
      \A k \in LayoutCalls :
        LET call == result.calls[k]
            d == WidgetAt(widget, call.path).Direction
            used == ChildUsed(k)
        IN  (call.err = nil /\ used # <<>>) =>
              /\ Main(call.usedSize, d) =
                    SumSeq([i \in DOMAIN used |-> Main(used[i], d)])
              /\ IsMaxOf(Cross(call.usedSize, d),
                         [i \in DOMAIN used |-> Cross(used[i], d)])

\* A column whose first child fills its box and whose last child reports
\* less than it was assigned.
C6_Witness ==
    /\ Done
    /\ widget.kind = "Container"
    /\ widget.Direction = DirectionColumn
    /\ Len(widget.Children) >= 2
    /\ result.err = nil
    /\ CallOf(<<1>>).usedSize = CallOf(<<1>>).box.Size
    /\ Lt(CallOf(<<Len(widget.Children)>>).usedSize.Width,
          CallOf(<<1>>).usedSize.Width)
    /\ Lt(CallOf(<<Len(widget.Children)>>).usedSize.Height,
          CallOf(<<Len(widget.Children)>>).box.Size.Height)
    /\ result.usedSize.Width = box.Size.Width
    /\ Lt(result.usedSize.Height, box.Size.Height)

----------------------------------------------------------------------------
AllFlexWeightsZero(W) ==
    \A i \in 1..Len(W.Children) :
        IsFlex(W.Children[i]) => W.Children[i].Weight = Zero

(* C7: in a container whose flex children all have weight 0, every flex    *)
(* child is assigned exactly its own main-axis minimum.                    *)
C7_ZeroWeightFallback ==
    Done =>
      \A k \in LayoutCalls :
        LET call == result.calls[k]
            W == WidgetAt(widget, call.path)
        IN  AllFlexWeightsZero(W) =>
              \A i \in 1..Len(W.Children) :
                 (IsFlex(W.Children[i]) /\ Rendered(Append(call.path, i))) =>
                    AssignedMain(k, i) =
                       MinMain(GetConstraints(W.Children[i].Widget),
                               W.Direction)

\* A column with free space left by a rigid child and two weight-0 flex
\* children of different minimums: each gets its own minimum.
C7_Witness ==
    /\ Done
    /\ widget.kind = "Container"
    /\ widget.Direction = DirectionColumn
    /\ Len(widget.Children) = 3
    /\ AllFlexWeightsZero(widget)
    /\ ~IsFlex(widget.Children[1])
    /\ IsFlex(widget.Children[2])
    /\ IsFlex(widget.Children[3])
    /\ Gt(FlexMain(widget, box), Zero)
    /\ Rendered(<<3>>)
    /\ CallOf(<<2>>).box.Size.Height = Zero
    /\ CallOf(<<3>>).box.Size.Height = F(20)

----------------------------------------------------------------------------
InRange(v, lo, hi) == Le(lo, v) /\ Le(v, hi)

\* The size of b lies within c on every axis on which c has min <= max.
WithinConstraints(b, c) ==
    /\ Le(c.MinWidth, c.MaxWidth) => InRange(b.Size.Width, c.MinWidth, c.MaxWidth)
    /\ Le(c.MinHeight, c.MaxHeight) =>
          InRange(b.Size.Height, c.MinHeight, c.MaxHeight)

(* C8: for child constraints with min <= max on an axis, the size resolved *)
(* for the child on that axis lies in [min, max]: the main-axis size of a  *)
(* container's flex child, and both axes of the child of a root, overlay   *)
(* or direction widget.                                                    *)
C8_ClampIntoRange ==
    Done =>
      \A k \in DOMAIN result.calls :
        LET call == result.calls[k]
            W == WidgetAt(widget, call.path)
        IN  \A i \in 1..NumChildren(W) :
              Rendered(Append(call.path, i)) =>
                LET b == CallOf(Append(call.path, i)).box
                    cc == GetConstraints(ChildOf(W, i))
                IN  IF call.kind = "Container"
                    THEN (IsFlex(W.Children[i])
                            /\ Le(MinMain(cc, W.Direction),
                                  MaxMain(cc, W.Direction)))
                         => InRange(Main(b.Size, W.Direction),
                                    MinMain(cc, W.Direction),
                                    MaxMain(cc, W.Direction))
                    ELSE WithinConstraints(b, cc)

\* A direction widget in a box of width 300 whose child takes 50..120: the
\* child is given 120.
C8_Witness ==
    /\ Done
    /\ widget.kind = "DirectionWidget"
    /\ widget.child # <<>>
    /\ GetConstraints(widget.child[1]).MinWidth = F(50)
    /\ GetConstraints(widget.child[1]).MaxWidth = F(120)
    /\ box.Size.Width = F(300)
    /\ CallOf(<<1>>).box.Size.Width = F(120)

----------------------------------------------------------------------------
(* C9: in an overlay and in a direction widget, a child whose min equals   *)
(* its max on an axis (as float32 values: +0 equals -0, a NaN equals       *)
(* nothing) is given a box whose size on that axis is min, whatever the    *)
(* parent box, the offsets and the other axis are.                         *)
C9_RigidExactness ==
    Done =>
      \A k \in DOMAIN result.calls :
        LET call == result.calls[k]
            W == WidgetAt(widget, call.path)
        IN  call.kind \in {"OverlayWidget", "DirectionWidget"} =>
              \A i \in 1..NumChildren(W) :
                Rendered(Append(call.path, i)) =>
                  LET b == CallOf(Append(call.path, i)).box
                      cc == GetConstraints(ChildOf(W, i))
                  IN  /\ Eq(cc.MinWidth, cc.MaxWidth)
                            => b.Size.Width = cc.MinWidth
                      /\ Eq(cc.MinHeight, cc.MaxHeight)
                            => b.Size.Height = cc.MinHeight

\* An overlay child that is rigid on the height only and whose left offset
\* lies beyond the overlay's box, followed by a child whose width bounds
\* are +0 and -0: the first is 30 high, the second +0 wide.
C9_Witness ==
    /\ Done
    /\ widget.kind = "OverlayWidget"
    /\ Len(widget.children) = 2
    /\ GetConstraints(widget.children[1]).MinHeight = F(30)
    /\ GetConstraints(widget.children[1]).MaxHeight = F(30)
    /\ ~Eq(GetConstraints(widget.children[1]).MinWidth,
           GetConstraints(widget.children[1]).MaxWidth)
    /\ Gt(GetConstraints(widget.children[1]).Left, box.Size.Width)
    /\ box.Size.Height = F(100)
    /\ CallOf(<<1>>).box.Size.Height = F(30)
    /\ widget.children[2] = SignedZeroFill
    /\ GetConstraints(widget.children[2]).MinWidth
          # GetConstraints(widget.children[2]).MaxWidth
    /\ CallOf(<<2>>).box.Size.Width = Zero
    /\ CallOf(<<2>>).box.Size.Height = F(60)

----------------------------------------------------------------------------
CenteredX == {GravityCenter, GravityNorth, GravitySouth}

EastX == {GravityEast, GravityNorthEast, GravitySouthEast}

WestX == {GravityWest, GravityNorthWest, GravitySouthWest}

CenteredY == {GravityCenter, GravityEast, GravityWest}

NorthY == {GravityNorth, GravityNorthEast, GravityNorthWest}

SouthY == {GravitySouth, GravitySouthEast, GravitySouthWest}

(* C10: a direction widget places its child of resolved size (cw, ch) in   *)
(* the parent box at (px, py) of size (pw, ph): x is px + (pw-cw)/2 for    *)
(* center/north/south, px + pw - cw for the east gravities, px for the     *)
(* west ones; y is py + (ph-ch)/2 for center/east/west, py for the north   *)
(* gravities, py + ph - ch for the south ones.                             *)
C10_GravityPlacement ==
    Done =>
      \A k \in DOMAIN result.calls :
        LET call == result.calls[k]
            W == WidgetAt(widget, call.path)
        IN  (call.kind = "DirectionWidget" /\ W.child # <<>>) =>
              LET b == CallOf(Append(call.path, 1)).box
                  px == call.box.Position.X
                  py == call.box.Position.Y
                  dx == Sub(b.Position.X, px)
                  dy == Sub(b.Position.Y, py)
                  slackX == Sub(call.box.Size.Width, b.Size.Width)
                  slackY == Sub(call.box.Size.Height, b.Size.Height)
              IN  /\ W.gravity \in CenteredX => Add(dx, dx) = slackX
                  /\ W.gravity \in EastX => dx = slackX
                  /\ W.gravity \in WestX => dx = Zero
                  /\ W.gravity \in CenteredY => Add(dy, dy) = slackY
                  /\ W.gravity \in NorthY => dy = Zero
                  /\ W.gravity \in SouthY => dy = slackY

\* A rigid 64x64 child anchored south in a box of 300x100 at (7, 3).
C10_Witness ==
    /\ Done
    /\ widget.kind = "DirectionWidget"
    /\ widget.gravity = GravitySouth
    /\ widget.child # <<>>
    /\ box.Position = Point(F(7), F(3))
    /\ box.Size = Size(F(300), F(100))
    /\ CallOf(<<1>>).box.Size = Size(F(64), F(64))
    /\ CallOf(<<1>>).box.Position = Point(F(125), F(39))

----------------------------------------------------------------------------
\* The used sizes returned by the children of the overlay call k, in order.
OverlayChildUsed(k) ==
    [i \in 1..Len(WidgetAt(widget, result.calls[k].path).children) |->
        CallOf(Append(result.calls[k].path, i)).usedSize]

\* m is the largest value of q, or zero when q is empty.
IsMaxOrZero(m, q) == IF q = <<>> THEN m = Zero ELSE IsMaxOf(m, q)

\* The bijections of 1..n onto itself.
Permutations(n) ==
    {f \in [1..n -> 1..n] : \A i, j \in 1..n : f[i] = f[j] => i = j}

(* C11: an overlay whose Render succeeds returns, per axis, the maximum of *)
(* the used sizes its children returned (zero with no children), and the   *)
(* same size for every permutation of its children.                        *)
C11_OverlayUsedSize ==
    Done =>
      /\ \A k \in DOMAIN result.calls :
            (result.calls[k].kind = "OverlayWidget"
               /\ result.calls[k].err = nil) =>
              LET used == OverlayChildUsed(k)
              IN  /\ IsMaxOrZero(result.calls[k].usedSize.Width,
                                 [i \in DOMAIN used |-> used[i].Width])
                  /\ IsMaxOrZero(result.calls[k].usedSize.Height,
                                 [i \in DOMAIN used |-> used[i].Height])
      /\ (widget.kind = "OverlayWidget" /\ result.err = nil) =>
            \A f \in Permutations(Len(widget.children)) :
               LET permuted == Overlay([i \in 1..Len(widget.children) |->
                                           widget.children[f[i]]],
                                       widget.constraints)
                   r == Render(permuted, ctx, box, <<>>)
               IN  r.err = nil /\ r.usedSize = result.usedSize

\* An overlay whose widest child is not its tallest child and whose last
\* child is smaller than both.
C11_Witness ==
    /\ Done
    /\ widget.kind = "OverlayWidget"
    /\ Len(widget.children) = 3
    /\ result.err = nil
    /\ CallOf(<<1>>).usedSize.Width = result.usedSize.Width
    /\ Lt(CallOf(<<1>>).usedSize.Height, result.usedSize.Height)
    /\ CallOf(<<2>>).usedSize.Height = result.usedSize.Height
    /\ Lt(CallOf(<<2>>).usedSize.Width, result.usedSize.Width)
    /\ Lt(CallOf(<<3>>).usedSize.Width, result.usedSize.Width)
    /\ Lt(CallOf(<<3>>).usedSize.Height, result.usedSize.Height)

----------------------------------------------------------------------------
CrossPosition(b, d) == IF d = DirectionRow THEN b.Position.Y ELSE b.Position.X

(* C12: every child of a row, rigid or flex, is given the height and the y *)
(* of the box passed to the row, whatever its own min/max height; every    *)
(* child of a column is given the column's width and x.                    *)
C12_CrossAxisFill ==
    Done =>
      \A k \in LayoutCalls :
        LET call == result.calls[k]
            W == WidgetAt(widget, call.path)
        IN  \A i \in 1..Len(W.Children) :
              Rendered(Append(call.path, i)) =>
                LET b == CallOf(Append(call.path, i)).box
                IN  /\ Cross(b.Size, W.Direction)
                          = Cross(call.box.Size, W.Direction)
                    /\ CrossPosition(b, W.Direction)
                          = CrossPosition(call.box, W.Direction)

\* A column of width 300 at x = 7 with a rigid child 50 wide and a flex
\* child that takes at most 120: both are given width 300 at x = 7.
C12_Witness ==
    /\ Done
    /\ widget.kind = "Container"
    /\ widget.Direction = DirectionColumn
    /\ box.Position.X = F(7)
    /\ box.Size.Width = F(300)
    /\ Len(widget.Children) >= 2
    /\ ~IsFlex(widget.Children[1])
    /\ GetConstraints(widget.Children[1].Widget).MaxWidth = F(50)
    /\ IsFlex(widget.Children[2])
    /\ GetConstraints(widget.Children[2].Widget).MaxWidth = F(120)
    /\ Rendered(<<2>>)
    /\ \A i \in 1..2 : /\ CallOf(<<i>>).box.Size.Width = F(300)
                       /\ CallOf(<<i>>).box.Position.X = F(7)

----------------------------------------------------------------------------
WellFormed(c) ==
    /\ Le(Zero, c.MinWidth) /\ Le(c.MinWidth, c.MaxWidth)
    /\ Le(Zero, c.MinHeight) /\ Le(c.MinHeight, c.MaxHeight)

RECURSIVE WellFormedTree(_)
\* Every widget of the tree has constraints with 0 <= min <= max.
WellFormedTree(w) ==
    /\ WellFormed(GetConstraints(w))
    /\ \A i \in 1..NumChildren(w) : WellFormedTree(ChildOf(w, i))

(* C13: in a pass started at the root with a non-negative canvas, over a   *)
(* tree whose constraints all satisfy 0 <= min <= max, every box passed to *)
(* a widget below the root has width >= 0 and height >= 0.                 *)
C13_NonNegativeBoxes ==
    (/\ Done
     /\ widget.kind = "RootWidget"
     /\ ctx.WindowWidth >= 0 /\ ctx.WindowHeight >= 0
     /\ WellFormedTree(widget)) =>
       \A k \in DOMAIN result.calls :
          result.calls[k].path # <<>> =>
             /\ Le(Zero, result.calls[k].box.Size.Width)
             /\ Le(Zero, result.calls[k].box.Size.Height)

\* On a canvas 8 high, an overlay whose child sits at top 30: the space left
\* for the child is negative and the child is given height 0.
C13_Witness ==
    /\ Done
    /\ widget.kind = "RootWidget"
    /\ WellFormedTree(widget)
    /\ Rendered(<<1, 1>>)
    /\ CallOf(<<1>>).kind = "OverlayWidget"
    /\ Lt(CallOf(<<1>>).box.Size.Height, CallOf(<<1, 1>>).box.Constraints.Top)
    /\ CallOf(<<1, 1>>).box.Size.Height = Zero
    /\ Gt(CallOf(<<1, 1>>).box.Position.Y, F(ctx.WindowHeight))

----------------------------------------------------------------------------
\* The widget rendered by call k has nothing to render.
HasNothingToRender(k) ==
    LET W == WidgetAt(widget, result.calls[k].path)
    IN  \/ result.calls[k].kind = "Container" /\ W.Children = <<>>
        \/ result.calls[k].kind \in {"RootWidget", "DirectionWidget"}
              /\ W.child = <<>>

(* C14: a container with zero children returns the size (0, 0), a root or  *)
(* direction widget whose child is nil returns exactly the size of the box *)
(* it was passed; none of them raises an error or renders anything.        *)
C14_NothingToRender ==
    Done =>
      \A k \in DOMAIN result.calls :
        HasNothingToRender(k) =>
          /\ result.calls[k].err = nil
          /\ RendersNoChild(k)
          /\ result.calls[k].usedSize =
                IF result.calls[k].kind = "Container" THEN ZeroSize
                ELSE result.calls[k].box.Size

\* A direction widget without a child in a box of 300x100.
C14_Witness ==
    /\ Done
    /\ widget.kind = "DirectionWidget"
    /\ widget.child = <<>>
    /\ box.Size = Size(F(300), F(100))
    /\ result = Return(Size(F(300), F(100)), nil,
                       <<Call(<<>>, widget, ctx, box,
                              Return(Size(F(300), F(100)), nil, <<>>))>>)

----------------------------------------------------------------------------
(* Exchange of the two axes *)

SwapSize(sz) == Size(sz.Height, sz.Width)

SwapConstraints(c) ==
    [MinWidth |-> c.MinHeight, MinHeight |-> c.MinWidth,
     MaxWidth |-> c.MaxHeight, MaxHeight |-> c.MaxWidth,
     Top |-> c.Left, Left |-> c.Top]

SwapBox(b) ==
    Box(Point(b.Position.Y, b.Position.X), SwapSize(b.Size),
        SwapConstraints(b.Constraints))

SwapDirection(d) ==
    CASE d = DirectionRow -> DirectionColumn
      [] d = DirectionColumn -> DirectionRow
      [] OTHER -> d

RECURSIVE OnlyContainersAndLeaves(_)
OnlyContainersAndLeaves(w) ==
    /\ w.kind \in {"Filler", "Leaf", "Container"}
    /\ \A i \in 1..NumChildren(w) : OnlyContainersAndLeaves(ChildOf(w, i))

RECURSIVE SwapAxes(_)
\* The tree of containers and leaves w with width and height exchanged in
\* every constraint and reported size, and rows exchanged with columns.
SwapAxes(w) ==
    CASE w.kind = "Filler" -> Fill(SwapConstraints(w.constraints))
      [] w.kind = "Leaf" ->
            Leaf(SwapConstraints(w.constraints), SwapSize(w.usedSize), w.err)
      [] w.kind = "Container" ->
            NewContainer(SwapDirection(w.Direction),
                         [i \in 1..Len(w.Children) |->
                             [Widget |-> SwapAxes(w.Children[i].Widget),
                              Type |-> w.Children[i].Type,
                              Weight |-> w.Children[i].Weight]],
                         SwapConstraints(w.constraints))

\* The path, box and outcome of every call of a log.
Outcomes(calls) ==
    [j \in DOMAIN calls |->
        [path |-> calls[j].path, box |-> calls[j].box,
         usedSize |-> calls[j].usedSize, err |-> calls[j].err]]

SwapOutcomes(calls) ==
    [j \in DOMAIN calls |->
        [path |-> calls[j].path, box |-> SwapBox(calls[j].box),
         usedSize |-> SwapSize(calls[j].usedSize), err |-> calls[j].err]]

\* The part of the pass's log made by call k and the calls below it.
SubLog(k) ==
    LET Below(c) == IsPrefix(result.calls[k].path, c.path)
    IN  SelectSeq(result.calls, Below)

(* C15: rendering a column in the box (x, y, w, h) assigns every child the *)
(* box, and returns the used size and error, that rendering the row over   *)
(* the same children with the axes exchanged, in the box (y, x, h, w),     *)
(* produces with the axes exchanged back; and the same for a row against   *)
(* the column.                                                             *)
C15_RowColumnSymmetry ==
    Done =>
      \A k \in LayoutCalls :
        LET call == result.calls[k]
            W == WidgetAt(widget, call.path)
        IN  OnlyContainersAndLeaves(W) =>
              LET r == Render(SwapAxes(W), call.ctx, SwapBox(call.box),
                              call.path)
              IN  Outcomes(SubLog(k)) = SwapOutcomes(r.calls)

\* A column with free space whose flex child has a min height above its
\* max height: like the row, it raises to min and then lowers to max.
C15_Witness ==
    /\ Done
    /\ widget.kind = "Container"
    /\ widget.Direction = DirectionColumn
    /\ Len(widget.Children) >= 2
    /\ IsFlex(widget.Children[1])
    /\ Lt(GetConstraints(widget.Children[1].Widget).MaxHeight,
          GetConstraints(widget.Children[1].Widget).MinHeight)
    /\ Gt(TotalWeight(widget), Zero)
    /\ Rendered(<<2>>)
    /\ CallOf(<<1>>).box.Size.Height
          = GetConstraints(widget.Children[1].Widget).MaxHeight
    /\ Render(SwapAxes(widget), ctx, SwapBox(box), <<>>).calls[2].box.Size.Width
          = GetConstraints(widget.Children[1].Widget).MaxHeight

----------------------------------------------------------------------------
\* Path p comes before path q in depth-first, declaration order: p is a
\* proper ancestor of q, or they part at a sibling index where p's is lower.
DepthFirstBefore(p, q) ==
    /\ p # q
    /\ \/ IsPrefix(p, q)
       \/ \E i \in 1..Len(p) :
             /\ i <= Len(q)
             /\ SubSeq(p, 1, i - 1) = SubSeq(q, 1, i - 1)
             /\ p[i] < q[i]

TreePaths(w) ==
    LET order == Preorder(w, <<>>)
    IN  {order[k] : k \in DOMAIN order}

(* C16: in a pass that returns no error, Render is called exactly once on  *)
(* every widget of the tree, children of containers and overlays included, *)
(* and the calls are made in depth-first declaration order: a call on a    *)
(* widget comes after the calls on every earlier sibling's whole subtree.  *)
C16_EveryWidgetOnce ==
    (Done /\ result.err = nil) =>
      /\ \A p \in TreePaths(widget) :
            Cardinality({k \in DOMAIN result.calls :
                            result.calls[k].path = p}) = 1
      /\ \A k \in DOMAIN result.calls :
            result.calls[k].path \in TreePaths(widget)
      /\ \A j, k \in DOMAIN result.calls :
            j < k => DepthFirstBefore(result.calls[j].path,
                                      result.calls[k].path)

\* The cmd/hello tree rendered without error: both rows, their four leaves
\* and the centered square are all reached, the square last.
C16_Witness ==
    /\ Done
    /\ result.err = nil
    /\ widget.kind = "RootWidget"
    /\ Rendered(<<1, 1, 1, 2>>)
    /\ Rendered(<<1, 1, 2, 2>>)
    /\ Rendered(<<1, 2, 1>>)
    /\ result.calls[Len(result.calls)].path = <<1, 2, 1>>
    /\ Len(result.calls) = Cardinality(TreePaths(widget))

----------------------------------------------------------------------------
MainPosition(b, d) == IF d = DirectionRow THEN b.Position.X ELSE b.Position.Y

\* The children of the container call k whose Render was called.
RenderedChildren(k) ==
    {i \in 1..Len(WidgetAt(widget, result.calls[k].path).Children) :
        Rendered(Append(result.calls[k].path, i))}

ChildCall(k, i) == CallOf(Append(result.calls[k].path, i))

(* C17: in a row or column, the main-axis position of every rendered child *)
(* is the container's own main-axis position plus the sum of the used      *)
(* sizes returned by the children before it; after a child that returned   *)
(* less than it was assigned, the next sibling starts inside the region    *)
(* assigned to that child.                                                 *)
C17_CursorFollowsUsedSize ==
    Done =>
      \A k \in LayoutCalls :
        LET d == WidgetAt(widget, result.calls[k].path).Direction
        IN  \A i \in RenderedChildren(k) :
              /\ MainPosition(ChildCall(k, i).box, d) =
                    Add(MainPosition(result.calls[k].box, d),
                        SumSeq([j \in 1..(i - 1) |->
                                   Main(ChildCall(k, j).usedSize, d)]))
              /\ (/\ i > 1
                  /\ Le(Zero, Main(ChildCall(k, i - 1).usedSize, d))
                  /\ Lt(Main(ChildCall(k, i - 1).usedSize, d),
                        AssignedMain(k, i - 1)))
                 => /\ Le(MainPosition(ChildCall(k, i - 1).box, d),
                          MainPosition(ChildCall(k, i).box, d))
                    /\ Lt(MainPosition(ChildCall(k, i).box, d),
                          Add(MainPosition(ChildCall(k, i - 1).box, d),
                              AssignedMain(k, i - 1)))

\* A row at x = 7 whose first child is assigned more than the 10 it reports:
\* the second child starts at 17, inside the first child's box.
C17_Witness ==
    /\ Done
    /\ widget.kind = "Container"
    /\ widget.Direction = DirectionRow
    /\ box.Position.X = F(7)
    /\ Len(widget.Children) >= 2
    /\ widget.Children[1].Widget = SmallLeaf
    /\ Rendered(<<2>>)
    /\ Gt(CallOf(<<1>>).box.Size.Width, F(10))
    /\ CallOf(<<1>>).usedSize.Width = F(10)
    /\ CallOf(<<2>>).box.Position.X = F(17)

----------------------------------------------------------------------------
(* C18 as stated: the first child of a row or column is placed at the      *)
(* container's main-axis position and every later child at a position      *)
(* strictly greater than that of the child before it.                      *)
C18_StrictlyIncreasing ==
    Done =>
      \A k \in LayoutCalls :
        LET d == WidgetAt(widget, result.calls[k].path).Direction
        IN  \A i \in RenderedChildren(k) :
              IF i = 1
              THEN MainPosition(ChildCall(k, i).box, d) =
                      MainPosition(result.calls[k].box, d)
              ELSE Lt(MainPosition(ChildCall(k, i - 1).box, d),
                      MainPosition(ChildCall(k, i).box, d))

(* C18: the first child of a row or column is placed at the container's    *)
(* main-axis position and every later child never before the child before  *)
(* it when that child returned a used size that is not negative: at the    *)
(* same position when that used size is zero, and strictly after it only   *)
(* when that used size is positive.                                        *)
C18_NonDecreasingOffsets ==
    Done =>
      \A k \in LayoutCalls :
        LET d == WidgetAt(widget, result.calls[k].path).Direction
        IN  \A i \in RenderedChildren(k) :
              IF i = 1
              THEN MainPosition(ChildCall(k, i).box, d) =
                      MainPosition(result.calls[k].box, d)
              ELSE LET prev == MainPosition(ChildCall(k, i - 1).box, d)
                       here == MainPosition(ChildCall(k, i).box, d)
                       used == Main(ChildCall(k, i - 1).usedSize, d)
                   IN  /\ Le(Zero, used) => Le(prev, here)
                       /\ Lt(prev, here) => Gt(used, Zero)
                       /\ (used = Zero) => here = prev

\* A column whose first child, a flex child of weight zero beside weighted
\* ones, is assigned and returns height zero: the second child is placed
\* at the same y, and the third strictly below it.
C18_Witness ==
    /\ Done
    /\ widget.kind = "Container"
    /\ widget.Direction = DirectionColumn
    /\ Len(widget.Children) = 3
    /\ IsFlex(widget.Children[1])
    /\ widget.Children[1].Weight = Zero
    /\ Gt(TotalWeight(widget), Zero)
    /\ Rendered(<<3>>)
    /\ CallOf(<<1>>).usedSize.Height = Zero
    /\ CallOf(<<2>>).box.Position.Y = CallOf(<<1>>).box.Position.Y
    /\ Lt(CallOf(<<2>>).box.Position.Y, CallOf(<<3>>).box.Position.Y)

----------------------------------------------------------------------------
\* The calls of the pass made by a structural widget on a child.
ChildCalls == {k \in DOMAIN result.calls : result.calls[k].path # <<>>}

\* The call of the pass on the parent of the widget of call k.
ParentCall(k) ==
    CallOf(SubSeq(result.calls[k].path, 1, Len(result.calls[k].path) - 1))

\* Boxes a and b cover the same region.
SameRegion(a, b) == a.Position = b.Position /\ a.Size = b.Size

(* C19: the context a structural widget passes to a child's Render carries *)
(* as parent box a box covering the region the structural widget itself    *)
(* was rendered into, and as available size the size of the box given to   *)
(* the child.                                                              *)
C19_ParentBoxIsParents ==
    Done =>
      \A k \in ChildCalls :
        /\ result.calls[k].ctx.ParentBox # NilBox
        /\ SameRegion(result.calls[k].ctx.ParentBox[1], ParentCall(k).box)
        /\ result.calls[k].ctx.AvailableSize = result.calls[k].box.Size

----------------------------------------------------------------------------
OverlayCalls ==
    {k \in DOMAIN result.calls : result.calls[k].kind = "OverlayWidget"}

\* x lowered to max and then raised to min.
LoweredThenRaised(x, min, max) ==
    LET lowered == IF Gt(x, max) THEN max ELSE x
    IN  IF Lt(lowered, min) THEN min ELSE lowered

\* The box an overlay holding w alone, rendered into b, gives to w.
AloneInOverlay(w, cx, b) ==
    Render(Overlay(<<w>>, DefaultConstraints), cx, b, <<>>).calls[2].box

(* C20: an overlay gives every child a box at the overlay box's position   *)
(* plus the child's (left, top), sized on each axis where the child is     *)
(* flexible (min and max differ as float32 values) as the overlay's extent *)
(* minus the offset, lowered to max and then raised to min; it is the box  *)
(* the child would get as the overlay's only child, whatever its siblings  *)
(* are and return.                                                         *)
C20_OverlayChildBox ==
    Done =>
      \A k \in OverlayCalls :
        LET O == WidgetAt(widget, result.calls[k].path)
            b == result.calls[k].box
        IN  \A i \in 1..Len(O.children) :
              Rendered(Append(result.calls[k].path, i)) =>
                LET c == GetConstraints(O.children[i])
                    cb == ChildCall(k, i).box
                IN  /\ cb.Position = Point(Add(b.Position.X, c.Left),
                                           Add(b.Position.Y, c.Top))
                    /\ ~Eq(c.MinWidth, c.MaxWidth) =>
                          cb.Size.Width =
                             LoweredThenRaised(Sub(b.Size.Width, c.Left),
                                               c.MinWidth, c.MaxWidth)
                    /\ ~Eq(c.MinHeight, c.MaxHeight) =>
                          cb.Size.Height =
                             LoweredThenRaised(Sub(b.Size.Height, c.Top),
                                               c.MinHeight, c.MaxHeight)
                    /\ cb = AloneInOverlay(O.children[i],
                                           result.calls[k].ctx, b)

\* An overlay at (7, 3) of size 300x100 whose first child reports less than
\* its box and whose second child sits at left 40, top 30: the second box
\* is at (47, 33) with size 260x70.
C20_Witness ==
    /\ Done
    /\ widget.kind = "OverlayWidget"
    /\ box.Position = Point(F(7), F(3))
    /\ Len(widget.children) >= 2
    /\ widget.children[1] = SmallLeaf
    /\ widget.children[2] = Fill(OffsetConstraints)
    /\ Rendered(<<2>>)
    /\ CallOf(<<1>>).usedSize # CallOf(<<1>>).box.Size
    /\ CallOf(<<2>>).box.Position = Point(F(47), F(33))
    /\ CallOf(<<2>>).box.Size = Size(F(260), F(70))

----------------------------------------------------------------------------
\* The calls of the pass on a direction widget that has a child and whose
\* gravity is none of the nine anchors.
UnknownGravityCalls ==
    {k \in DOMAIN result.calls :
        /\ result.calls[k].kind = "DirectionWidget"
        /\ WidgetAt(widget, result.calls[k].path).child # <<>>
        /\ WidgetAt(widget, result.calls[k].path).gravity
              \notin GravityCenter..GravitySouthWest}

\* The size a direction widget gives its child on one axis: min when the
\* child is rigid on it, else the parent's extent lowered to max and then
\* raised to min.
RigidOrFlexible(extent, min, max) ==
    IF Eq(min, max) THEN min ELSE LoweredThenRaised(extent, min, max)

(* C21: a direction widget whose gravity is none of the nine anchors raises *)
(* no error of its own: its child is rendered in a box sized by the rigid / *)
(* flexible rule and positioned at the absolute point (0, 0), wherever the  *)
(* parent box is, and the widget returns what the child returned.           *)
C21_UnknownGravity ==
    Done =>
      \A k \in UnknownGravityCalls :
        LET call == result.calls[k]
            c == GetConstraints(WidgetAt(widget, call.path).child[1])
        IN  /\ Rendered(Append(call.path, 1))
            /\ ChildCall(k, 1).box.Position = Point(Zero, Zero)
            /\ ChildCall(k, 1).box.Size =
                  Size(RigidOrFlexible(call.box.Size.Width,
                                       c.MinWidth, c.MaxWidth),
                       RigidOrFlexible(call.box.Size.Height,
                                       c.MinHeight, c.MaxHeight))
            /\ call.err = ChildCall(k, 1).err
            /\ call.usedSize = ChildCall(k, 1).usedSize

\* A direction widget of unknown gravity rendered into a 300x100 box at
\* (7, 3) around a rigid 64x64 filler: no error, and the filler's box is at
\* (0, 0), outside the parent box's origin.
C21_Witness ==
    /\ Done
    /\ widget.kind = "DirectionWidget"
    /\ widget.gravity = GravitySouthWest + 1
    /\ box.Position = Point(F(7), F(3))
    /\ widget.child = <<Fill(NewRigidConstraintsAt(64, 64, 10, 20))>>
    /\ result.err = nil
    /\ CallOf(<<1>>).box.Position = Point(Zero, Zero)
    /\ CallOf(<<1>>).box.Size = Size(F(64), F(64))
    /\ result.usedSize = Size(F(64), F(64))

====
